---- MODULE Spec2Model ----
(***************************************************************************)
(* State-machine model of the ESP32 AQI sensor node (src/Receiver.py, an   *)
(* Arduino sketch): setup(), loop(), readAllSensors(), readPMS5003(),      *)
(* calculateAQI(), transmitData(), createCSVHeader(), writeToSDCard().     *)
(*                                                                         *)
(* Numbers.  millis(), the three "last fired" stamps and the timestamp are *)
(* unsigned long (32 bit on the ESP32); the model holds such a value as    *)
(* the integer with the same 32 bits (u below 2^31 as u, u from 2^31 on as *)
(* u - 2^32) and computes on it modulo 2^32.  packetCounter is an int      *)
(* (32 bit, signed).  Temperature                                          *)
(* and humidity are floats that the DHT11 driver delivers with one decimal;*)
(* the model holds them in tenths (253 = 25.3); NAN stands for the float   *)
(* NaN of a failed driver read.                                            *)
(* pm25 and pm10 are floats that only ever receive 16-bit integers.  The   *)
(* composite AQI is computed exactly, in millionths.                       *)
(***************************************************************************)
EXTENDS Integers, Sequences, FiniteSets, TLC

\* ------------------------------------------------------------------------
\* Program constants
\* ------------------------------------------------------------------------
NODE_ID == 1
SENSOR_READ_INTERVAL == 5000
LORA_TRANSMIT_INTERVAL == 30000
SD_WRITE_INTERVAL == 10000
LOOP_DELAY == 100
BOOT_DELAY == 1000 + 2000
FRAME_LEN == 32
SYNC1 == 66
SYNC2 == 77
NAN == -99999
INT_MAX == 2147483647
INT_MIN == -INT_MAX - 1

\* isnan()
IsNaN(x) == x = NAN

\* ------------------------------------------------------------------------
\* Bounds of the model
\* ------------------------------------------------------------------------
MaxClock == 42000
MaxStream == 66
MaxBoots == 2
MaxArrivals == 4
PmsHorizon == 23000
AqiHorizon == 13000
LogHorizon == 33000
LongHorizon == 70000

\* ------------------------------------------------------------------------
\* Arithmetic helpers
\* ------------------------------------------------------------------------
Abs(x) == IF x < 0 THEN -x ELSE x

Min(a, b) == IF a <= b THEN a ELSE b

\* C integer division truncates toward zero.
TruncDiv(a, b) == IF (a >= 0) = (b > 0) THEN Abs(a) \div Abs(b) ELSE -(Abs(a) \div Abs(b))

\* unsigned long addition a + d modulo 2^32, for 0 <= d < 2^31
ULongAdd(a, d) ==
    IF a > INT_MAX - d
    THEN ((a - INT_MAX) - 1) + ((d - INT_MAX) - 1)
    ELSE a + d

\* unsigned long subtraction currentMillis - last, modulo 2^32
Elapsed(t, last) ==
    IF last < 0 /\ t > INT_MAX + last
    THEN ((t - INT_MAX) - 1) - ((last + INT_MAX) + 1)
    ELSE IF last > 0 /\ t < INT_MIN + last
         THEN ((t + INT_MAX) + 1) - ((last - INT_MAX) - 1)
         ELSE t - last

\* The unsigned comparison d >= period, for 0 <= period < 2^31: a d with the
\* top bit set is 2^31 or more.
AtLeast(d, period) == d < 0 \/ d >= period

\* c++ on an int.  INT_MAX + 1 is undefined in C++: the add instruction
\* wraps to INT_MIN, and a compiler that relies on the absence of overflow
\* may leave any other value, for which 0 stands here.
IntOverflowOutcomes == {INT_MIN, 0}

IncrementInt(c, overflow) == IF c = INT_MAX THEN overflow ELSE c + 1

\* millis() / 1000 on the unsigned value; 2^31 = 2147483 * 1000 + 648.
Seconds(u) ==
    IF u >= 0
    THEN u \div 1000
    ELSE LET x == (u + INT_MAX) + 1
         IN 2147483 + (x \div 1000) + (((x % 1000) + 648) \div 1000)

\* Arduino map(): (x - in_min) * (out_max - out_min) / (in_max - in_min) + out_min
Map(x, in_min, in_max, out_min, out_max) ==
    TruncDiv((x - in_min) * (out_max - out_min), in_max - in_min) + out_min

\* ------------------------------------------------------------------------
\* The particulate sensor's serial stream and frame decoder
\* ------------------------------------------------------------------------
\* The first n elements of s, and s without them.
Take(s, n) == SubSeq(s, 1, Min(n, Len(s)))

Drop(s, n) == SubSeq(s, Min(n, Len(s)) + 1, Len(s))

\* pmsSerial.read(): the next byte, or -1 stored into a uint8_t (255) when
\* nothing is available.
ReadByte(s) == IF s = <<>> THEN 255 ELSE Head(s)

\* A scan that takes the first 0x42 for the start of a frame.
RECURSIVE ScanSyncFirstByteOnly(_)
ScanSyncFirstByteOnly(s) ==
    IF s = <<>>
    THEN [found |-> FALSE, rest |-> <<>>]
    ELSE IF Head(s) = SYNC1
         THEN [found |-> TRUE, rest |-> Drop(s, 2)]
         ELSE ScanSyncFirstByteOnly(Tail(s))

\* The sync scan of readPMS5003: reads byte1; when it is 0x42 reads byte2 as
\* well (consumed whether or not it is 0x4d).  Yields whether the sync was
\* found, what is left of the stream, and how many bytes the scan removed.
RECURSIVE ScanSync(_)
ScanSync(s) ==
    IF s = <<>>
    THEN [found |-> FALSE, rest |-> <<>>]
    ELSE LET byte1 == Head(s)
             s1 == Tail(s)
         IN IF byte1 = SYNC1
            THEN LET byte2 == ReadByte(s1)
                     s2 == Drop(s1, 1)
                 IN IF byte2 = SYNC2
                    THEN [found |-> TRUE, rest |-> s2]
                    ELSE ScanSync(s2)
            ELSE ScanSync(s1)

\* buffer[i] (i counted from 0) after the "read rest of frame" loop: the
\* first two cells hold the sync, cell i holds the (i-1)-th byte that was
\* still available after the sync, and a cell the loop never reached keeps
\* whatever the stack held (garbage[i]).
BufferAt(rest, garbage, i) ==
    IF i = 0 THEN SYNC1
    ELSE IF i = 1 THEN SYNC2
    ELSE IF i - 1 <= Min(FRAME_LEN - 2, Len(rest)) THEN rest[i - 1]
    ELSE garbage[i]

\* A 16-bit word read low byte first.
Word16LittleEndian(rest, garbage, hi) ==
    BufferAt(rest, garbage, hi) + BufferAt(rest, garbage, hi + 1) * 256

\* (buffer[hi] << 8) | buffer[hi + 1]
Word16(rest, garbage, hi) ==
    BufferAt(rest, garbage, hi) * 256 + BufferAt(rest, garbage, hi + 1)

\* A decoder that starts to scan as soon as any byte is available.
ReadPMS5003AnyAvailable(s, pm25, pm10, firstRead, garbage) ==
    IF Len(s) > 0
    THEN LET scan == ScanSync(s)
             nread == Min(FRAME_LEN - 2, Len(scan.rest))
         IN IF scan.found
            THEN [stream |-> Drop(scan.rest, FRAME_LEN - 2),
                  pm25 |-> Word16(scan.rest, garbage, 12),
                  pm10 |-> Word16(scan.rest, garbage, 14),
                  firstRead |-> firstRead,
                  frameFound |-> TRUE, nread |-> nread]
            ELSE [stream |-> scan.rest, pm25 |-> pm25, pm10 |-> pm10,
                  firstRead |-> firstRead,
                  frameFound |-> FALSE, nread |-> 0]
    ELSE [stream |-> s,
          pm25 |-> IF firstRead THEN 0 ELSE pm25,
          pm10 |-> IF firstRead THEN 0 ELSE pm10,
          firstRead |-> FALSE,
          frameFound |-> FALSE, nread |-> 0]

\* readPMS5003 on the stream s with the current pm25, pm10 and the static
\* firstRead.  nread is the number of bytes the frame loop read after the
\* sync (30 for a whole frame).
ReadPMS5003(s, pm25, pm10, firstRead, garbage) ==
    IF Len(s) >= FRAME_LEN
    THEN LET scan == ScanSync(s)
             nread == Min(FRAME_LEN - 2, Len(scan.rest))
         IN IF scan.found
            THEN [stream |-> Drop(scan.rest, FRAME_LEN - 2),
                  pm25 |-> Word16(scan.rest, garbage, 12),
                  pm10 |-> Word16(scan.rest, garbage, 14),
                  firstRead |-> firstRead,
                  frameFound |-> TRUE, nread |-> nread]
            ELSE [stream |-> scan.rest, pm25 |-> pm25, pm10 |-> pm10,
                  firstRead |-> firstRead,
                  frameFound |-> FALSE, nread |-> 0]
    ELSE [stream |-> s,
          pm25 |-> IF firstRead THEN 0 ELSE pm25,
          pm10 |-> IF firstRead THEN 0 ELSE pm10,
          firstRead |-> FALSE,
          frameFound |-> FALSE, nread |-> 0]

\* ------------------------------------------------------------------------
\* calculateAQI
\* ------------------------------------------------------------------------
\* A PM2.5 sub-index that interpolates on the concentration itself, not on
\* ten times it, and caps the top band at its lower end.
Pm25AqiUnscaled(pm25) ==
    LET x == pm25 * 10
    IN IF x <= 120 THEN Map(pm25, 0, 120, 0, 50)
       ELSE IF x <= 354 THEN Map(pm25, 121, 354, 51, 100)
       ELSE IF x <= 554 THEN Map(pm25, 355, 554, 101, 150)
       ELSE IF x <= 1504 THEN Map(pm25, 555, 1504, 151, 200)
       ELSE IF x <= 2504 THEN Map(pm25, 1505, 2504, 201, 300)
       ELSE Min(Map(pm25, 2505, 5000, 301, 500), 301)

\* PM2.5 sub-index; the breakpoints are compared on the concentration, the
\* interpolation runs on pm25 * 10.
Pm25Aqi(pm25) ==
    LET x == pm25 * 10
    IN IF x <= 120 THEN Map(x, 0, 120, 0, 50)
       ELSE IF x <= 354 THEN Map(x, 121, 354, 51, 100)
       ELSE IF x <= 554 THEN Map(x, 355, 554, 101, 150)
       ELSE IF x <= 1504 THEN Map(x, 555, 1504, 151, 200)
       ELSE IF x <= 2504 THEN Map(x, 1505, 2504, 201, 300)
       ELSE Min(Map(x, 2505, 5000, 301, 500), 500)

Pm10Aqi(pm10) ==
    IF pm10 <= 54 THEN Map(pm10, 0, 54, 0, 50)
    ELSE IF pm10 <= 154 THEN Map(pm10, 55, 154, 51, 100)
    ELSE IF pm10 <= 254 THEN Map(pm10, 155, 254, 101, 150)
    ELSE IF pm10 <= 354 THEN Map(pm10, 255, 354, 151, 200)
    ELSE IF pm10 <= 424 THEN Map(pm10, 355, 424, 201, 300)
    ELSE Min(Map(pm10, 425, 604, 301, 500), 500)

\* tempFactor and humidityFactor, in hundredths (temperature, humidity in tenths)
TempFactor(t) == IF t > 350 THEN 110 ELSE IF t < 0 THEN 105 ELSE 100

HumidityFactor(h) == IF h > 800 THEN 105 ELSE 100

\* A composite value that weighs the two particulate sub-indices alike.
CompositeAQIEqualWeights(d) ==
    LET weighted == 35 * Pm25Aqi(d.pm25) + 35 * Pm10Aqi(d.pm10)
                    + 15 * Map(d.gasLevel, 0, 4095, 0, 50)
                    + 5 * Map(d.smokeLevel, 0, 4095, 0, 50)
        envStress == Abs(d.temperature - 250) + Abs(d.humidity - 500)
    IN weighted * TempFactor(d.temperature) * HumidityFactor(d.humidity)
       + envStress * 10000

\* compositeAQI before the bounds check, in millionths:
\*   (0.4 pm25_aqi + 0.3 pm10_aqi + 0.15 gasFactor + 0.05 smokeFactor)
\*     * tempFactor * humidityFactor  +  envStress * 10
CompositeAQI(d) ==
    LET weighted == 40 * Pm25Aqi(d.pm25) + 30 * Pm10Aqi(d.pm10)
                    + 15 * Map(d.gasLevel, 0, 4095, 0, 50)
                    + 5 * Map(d.smokeLevel, 0, 4095, 0, 50)
        envStress == Abs(d.temperature - 250) + Abs(d.humidity - 500)
    IN weighted * TempFactor(d.temperature) * HumidityFactor(d.humidity)
       + envStress * 10000

\* A bounds check that forgets the upper bound.
ClampAQILowerOnly(c) == IF c < 0 THEN 0 ELSE c

\* The bounds check of calculateAQI: if (> 500) = 500; if (< 0) = 0.
ClampAQI(c) == IF c > 500 * 1000000 THEN 500 * 1000000 ELSE IF c < 0 THEN 0 ELSE c

\* The value calculateAQI stores into currentData.aqi: (int)compositeAQI
AqiOf(d) == ClampAQI(CompositeAQI(d)) \div 1000000

CalculateAQI(d) == [d EXCEPT !.aqi = AqiOf(d)]

\* ------------------------------------------------------------------------
\* State
\* ------------------------------------------------------------------------
VARIABLES
    mode,             \* "boot": before setup(); "run": in loop(); "halt": while (1)
    now,              \* millis()
    lastSensorRead,
    lastLoRaTransmit,
    lastSDWrite,
    packetCounter,
    currentData,      \* the SensorData global
    firstRead,        \* static bool of readPMS5003
    pmsSerial,        \* bytes waiting in the particulate sensor's receive buffer
    sdMounted,        \* SD.begin() succeeded in this boot
    csv,              \* /aqi_data.csv: [exists, lines]
    radio,            \* packets handed to LoRa since boot, in order
    iter,             \* what the last loop() iteration did (observation only)
    hist              \* counts over the run (observation only)

vars == <<mode, now, lastSensorRead, lastLoRaTransmit, lastSDWrite, packetCounter,
          currentData, firstRead, pmsSerial, sdMounted, csv, radio, iter, hist>>

ZeroData ==
    [timestamp |-> 0, temperature |-> 0, humidity |-> 0, pm25 |-> 0, pm10 |-> 0,
     gasLevel |-> 0, smokeLevel |-> 0, aqi |-> 0]

\* Lines of the log file.  A data line carries what writeToSDCard prints.
HeaderLine == [kind |-> "header", row |-> ZeroData]

OtherLine == [kind |-> "other", row |-> ZeroData]

RowLine(d) == [kind |-> "row", row |-> d]

AbsentStore == [exists |-> FALSE, lines |-> <<>>]

\* Nothing has run yet in this iteration.
IdleIter ==
    [at |-> 0, samples |-> 0, writes |-> 0, sends |-> 0, order |-> <<>>,
     avail |-> 0, frameFound |-> FALSE, nread |-> 0, pmBefore |-> <<0, 0>>,
     dhtFailed |-> FALSE, analog |-> <<0, 0>>]

\* The machine as one record, for the handlers below.
Machine ==
    [now |-> now, lastSensorRead |-> lastSensorRead,
     lastLoRaTransmit |-> lastLoRaTransmit, lastSDWrite |-> lastSDWrite,
     packetCounter |-> packetCounter, currentData |-> currentData,
     firstRead |-> firstRead, pmsSerial |-> pmsSerial, sdMounted |-> sdMounted,
     csv |-> csv, radio |-> radio, iter |-> iter, hist |-> hist]

\* ------------------------------------------------------------------------
\* Handlers
\* ------------------------------------------------------------------------
\* A readAllSensors that gives up when the DHT11 read fails.
ReadAllSensorsAbortOnFail(m, in) ==
    LET failed == IsNaN(in.temperature) \/ IsNaN(in.humidity)
        pms == ReadPMS5003(m.pmsSerial, m.currentData.pm25, m.currentData.pm10,
                           m.firstRead, [i \in 0..(FRAME_LEN - 1) |-> in.garbage])
        aborted == failed
    IN [m EXCEPT
          !.currentData = [timestamp |-> IF aborted THEN @.timestamp
                                         ELSE Seconds(ULongAdd(m.now, in.rd)),
                           temperature |-> IF failed THEN 0 ELSE in.temperature,
                           humidity |-> IF failed THEN 0 ELSE in.humidity,
                           pm25 |-> IF aborted THEN @.pm25 ELSE pms.pm25,
                           pm10 |-> IF aborted THEN @.pm10 ELSE pms.pm10,
                           gasLevel |-> IF aborted THEN @.gasLevel ELSE in.gas,
                           smokeLevel |-> IF aborted THEN @.smokeLevel ELSE in.smoke,
                           aqi |-> m.currentData.aqi],
          !.pmsSerial = IF aborted THEN @ ELSE pms.stream,
          !.firstRead = IF aborted THEN @ ELSE pms.firstRead,
          !.iter = [@ EXCEPT !.order = Append(@, "read"),
                             !.avail = Len(m.pmsSerial),
                             !.frameFound = ~aborted /\ pms.frameFound,
                             !.nread = IF aborted THEN 0 ELSE pms.nread,
                             !.pmBefore = <<m.currentData.pm25, m.currentData.pm10>>,
                             !.dhtFailed = failed,
                             !.analog = <<in.gas, in.smoke>>],
          !.hist = [@ EXCEPT !.cycles = @ + 1,
                             !.decoded = @ \/ (~aborted /\ pms.frameFound)]]

\* readAllSensors: DHT11 (both fields 0 when either read is NaN), the
\* particulate decoder, the two analog channels, the timestamp.  in.rd is
\* the time the reads took: the timestamp is a later millis() than the
\* iteration's currentMillis.
ReadAllSensors(m, in) ==
    LET failed == IsNaN(in.temperature) \/ IsNaN(in.humidity)
        pms == ReadPMS5003(m.pmsSerial, m.currentData.pm25, m.currentData.pm10,
                           m.firstRead, [i \in 0..(FRAME_LEN - 1) |-> in.garbage])
    IN [m EXCEPT
          !.currentData = [timestamp |-> Seconds(ULongAdd(m.now, in.rd)),
                           temperature |-> IF failed THEN 0 ELSE in.temperature,
                           humidity |-> IF failed THEN 0 ELSE in.humidity,
                           pm25 |-> pms.pm25,
                           pm10 |-> pms.pm10,
                           gasLevel |-> in.gas,
                           smokeLevel |-> in.smoke,
                           aqi |-> m.currentData.aqi],
          !.pmsSerial = pms.stream,
          !.firstRead = pms.firstRead,
          !.iter = [@ EXCEPT !.order = Append(@, "read"),
                             !.avail = Len(m.pmsSerial),
                             !.frameFound = pms.frameFound,
                             !.nread = pms.nread,
                             !.pmBefore = <<m.currentData.pm25, m.currentData.pm10>>,
                             !.dhtFailed = failed,
                             !.analog = <<in.gas, in.smoke>>],
          !.hist = [@ EXCEPT !.cycles = @ + 1,
                             !.decoded = @ \/ pms.frameFound]]

ComputeAQI(m) ==
    [m EXCEPT !.currentData = CalculateAQI(@),
              !.iter = [@ EXCEPT !.order = Append(@, "aqi")]]

\* A createCSVHeader without the SD.exists test: FILE_WRITE truncates.
CreateCSVHeaderAlways(file, opened) ==
    IF opened
    THEN [exists |-> TRUE, lines |-> <<HeaderLine>>]
    ELSE file

\* createCSVHeader: only when the file does not exist; FILE_WRITE creates it.
CreateCSVHeader(file, opened) ==
    IF ~file.exists /\ opened
    THEN [exists |-> TRUE, lines |-> <<HeaderLine>>]
    ELSE file

\* A writeToSDCard that opens with FILE_WRITE.
WriteToSDCardTruncating(file, d, opened) ==
    IF opened
    THEN [exists |-> TRUE, lines |-> <<RowLine(d)>>]
    ELSE file

\* writeToSDCard: FILE_APPEND creates the file when it is missing and
\* otherwise writes at its end; nothing happens when the open fails.
WriteToSDCard(file, d, opened) ==
    IF opened
    THEN [exists |-> TRUE, lines |-> Append(file.lines, RowLine(d))]
    ELSE file

\* round(x * 10) / 10.0 on a value that carries one decimal already
Round1(x) == x

\* A JSON document with ++packetCounter for its packet field.
PacketPreIncrement(d, counter) ==
    [node_id |-> NODE_ID, packet |-> IncrementInt(counter, INT_MIN),
     timestamp |-> d.timestamp,
     temp |-> Round1(d.temperature), humidity |-> Round1(d.humidity),
     pm25 |-> Round1(d.pm25), pm10 |-> Round1(d.pm10),
     gas |-> d.gasLevel, smoke |-> d.smokeLevel, aqi |-> d.aqi]

\* The JSON document of transmitData; packetCounter++ yields the old value.
Packet(d, counter) ==
    [node_id |-> NODE_ID, packet |-> counter, timestamp |-> d.timestamp,
     temp |-> Round1(d.temperature), humidity |-> Round1(d.humidity),
     pm25 |-> Round1(d.pm25), pm10 |-> Round1(d.pm10),
     gas |-> d.gasLevel, smoke |-> d.smokeLevel, aqi |-> d.aqi]

TransmitData(m, in) ==
    [m EXCEPT !.radio = Append(@, Packet(m.currentData, m.packetCounter)),
              !.packetCounter = IncrementInt(@, in.overflow),
              !.iter = [@ EXCEPT !.sends = @ + 1, !.order = Append(@, "send")]]

\* A persist timer that keeps its stamp when the write failed, so that the
\* next sample tries again.
PersistTimerRetryOnFailure(m, in) ==
    IF AtLeast(Elapsed(m.now, m.lastSDWrite), SD_WRITE_INTERVAL)
    THEN [m EXCEPT
            !.csv = WriteToSDCard(@, m.currentData, m.sdMounted /\ in.openOk),
            !.lastSDWrite = IF m.sdMounted /\ in.openOk THEN m.now ELSE @,
            !.iter = [@ EXCEPT !.writes = @ + 1, !.order = Append(@, "write")],
            !.hist = [@ EXCEPT !.calls = Append(@, [row |-> m.currentData,
                                                   opened |-> m.sdMounted /\ in.openOk])]]
    ELSE m

\* The persist timer, checked inside the sample block (lines 149-152).
PersistTimer(m, in) ==
    IF AtLeast(Elapsed(m.now, m.lastSDWrite), SD_WRITE_INTERVAL)
    THEN [m EXCEPT
            !.csv = WriteToSDCard(@, m.currentData, m.sdMounted /\ in.openOk),
            !.lastSDWrite = m.now,
            !.iter = [@ EXCEPT !.writes = @ + 1, !.order = Append(@, "write")],
            !.hist = [@ EXCEPT !.calls = Append(@, [row |-> m.currentData,
                                                   opened |-> m.sdMounted /\ in.openOk])]]
    ELSE m

\* A sample action that computes the index before it reads the sensors.
SampleActionAqiFirst(m, in) ==
    LET shown == [ReadAllSensors(ComputeAQI(m), in) EXCEPT
                     !.iter = [@ EXCEPT !.samples = @ + 1]]
    IN PersistTimer(shown, in)

\* The sample action: readAllSensors(); calculateAQI(); displayReadings();
\* then the persist timer.
SampleAction(m, in) ==
    LET shown == [ComputeAQI(ReadAllSensors(m, in)) EXCEPT
                     !.iter = [@ EXCEPT !.samples = @ + 1]]
    IN PersistTimer(shown, in)

\* A scheduler that makes up for missed periods: one sample per elapsed
\* period, the stamp advanced by one period each time.
RECURSIVE SampleTimerCatchUp(_, _)
SampleTimerCatchUp(m, in) ==
    IF AtLeast(Elapsed(m.now, m.lastSensorRead), SENSOR_READ_INTERVAL)
    THEN SampleTimerCatchUp([SampleAction(m, in) EXCEPT
                                !.lastSensorRead = m.lastSensorRead + SENSOR_READ_INTERVAL], in)
    ELSE m

\* A scheduler that checks the persist timer in every iteration.
SampleTimerPersistOutside(m, in) ==
    IF AtLeast(Elapsed(m.now, m.lastSensorRead), SENSOR_READ_INTERVAL)
    THEN [SampleAction(m, in) EXCEPT !.lastSensorRead = m.now]
    ELSE PersistTimer(m, in)

\* The sample timer (lines 143-155).
SampleTimer(m, in) ==
    IF AtLeast(Elapsed(m.now, m.lastSensorRead), SENSOR_READ_INTERVAL)
    THEN [SampleAction(m, in) EXCEPT !.lastSensorRead = m.now]
    ELSE m

\* A transmit timer that keeps to its grid: the stamp advanced by one period.
TransmitTimerOnGrid(m, in) ==
    IF AtLeast(Elapsed(m.now, m.lastLoRaTransmit), LORA_TRANSMIT_INTERVAL)
    THEN [TransmitData(m, in) EXCEPT
            !.lastLoRaTransmit = m.lastLoRaTransmit + LORA_TRANSMIT_INTERVAL]
    ELSE m

\* A transmit timer that restarts the other two timers and clears the
\* sample when it fires.
TransmitTimerResetsAll(m, in) ==
    IF AtLeast(Elapsed(m.now, m.lastLoRaTransmit), LORA_TRANSMIT_INTERVAL)
    THEN [TransmitData(m, in) EXCEPT !.lastLoRaTransmit = m.now,
                                     !.lastSensorRead = m.now,
                                     !.lastSDWrite = m.now,
                                     !.currentData = ZeroData]
    ELSE m

\* The transmit timer (lines 158-161).
TransmitTimer(m, in) ==
    IF AtLeast(Elapsed(m.now, m.lastLoRaTransmit), LORA_TRANSMIT_INTERVAL)
    THEN [TransmitData(m, in) EXCEPT !.lastLoRaTransmit = m.now]
    ELSE m

\* A loop() that serves the transmit timer before the sample timer.
LoopBodyTransmitFirst(m, in) ==
    LET start == [m EXCEPT !.iter = [IdleIter EXCEPT !.at = m.now]]
        done == SampleTimer(TransmitTimer(start, in), in)
    IN [done EXCEPT !.now = ULongAdd(m.now, in.dt)]

\* One iteration of loop(): currentMillis = millis(), both timers, then
\* delay(100); in.dt later the next iteration reads the clock.
LoopBody(m, in) ==
    LET start == [m EXCEPT !.iter = [IdleIter EXCEPT !.at = m.now]]
        done == TransmitTimer(SampleTimer(start, in), in)
    IN [done EXCEPT !.now = ULongAdd(m.now, in.dt)]

\* ------------------------------------------------------------------------
\* Inputs
\* ------------------------------------------------------------------------
\* A whole frame of the sensor: the sync, then every other cell holding its
\* own index, but for the PM2.5 word at 12-13 and the PM10 word at 14-15.
Frame(pm25, pm10) ==
    [i \in 1..FRAME_LEN |->
        IF i = 1 THEN SYNC1
        ELSE IF i = 2 THEN SYNC2
        ELSE IF i = 13 THEN pm25 \div 256
        ELSE IF i = 14 THEN pm25 % 256
        ELSE IF i = 15 THEN pm10 \div 256
        ELSE IF i = 16 THEN pm10 % 256
        ELSE i - 1]

\* n bytes that hold no sync byte
Noise(n) == [i \in 1..n |-> 0]

\* What a chunk descriptor <<kind, a, b>> stands for: 1 a whole frame with
\* pm25 = a and pm10 = b; 2 the first a bytes of a frame; 3 a bytes
\* that are no sync byte; 4 a bytes 0x42.
ChunkBytes(c) ==
    IF c[1] = 1 THEN Frame(c[2], c[3])
    ELSE IF c[1] = 2 THEN Take(Frame(c[3], c[3]), c[2])
    ELSE IF c[1] = 3 THEN Noise(c[2])
    ELSE [i \in 1..c[2] |-> SYNC1]

\* ------------------------------------------------------------------------
\* Actions
\* ------------------------------------------------------------------------
\* The file on the card at first: 0 none, 1 an empty file, 2 a file with
\* other content.
StoreOf(k) ==
    IF k = 0 THEN AbsentStore
    ELSE IF k = 1 THEN [exists |-> TRUE, lines |-> <<>>]
    ELSE [exists |-> TRUE, lines |-> <<OtherLine>>]

InitWith(stores) ==
    /\ mode = "boot"
    /\ now = 0
    /\ lastSensorRead = 0
    /\ lastLoRaTransmit = 0
    /\ lastSDWrite = 0
    /\ packetCounter = 0
    /\ currentData = ZeroData
    /\ firstRead = TRUE
    /\ pmsSerial = <<>>
    /\ sdMounted = FALSE
    /\ \E k \in stores : csv = StoreOf(k)
    /\ radio = <<>>
    /\ iter = IdleIter
    /\ hist = [cycles |-> 0, decoded |-> FALSE, calls |-> <<>>, boots |-> 1,
               store0 |-> csv, headers |-> 0, arrivals |-> 0,
               loraFailed |-> FALSE, sent0 |-> 0]

\* A setup() that goes on without the radio.
AfterLoRaBeginWarnOnly(begun) == "run"

\* if (!LoRa.begin(...)) { ...; while (1); }: the node halts when the radio
\* does not start, and goes on to loop() when it does.
AfterLoRaBegin(begun) == IF begun THEN "run" ELSE "halt"

\* setup(): SD.begin and createCSVHeader, LoRa.begin (the node halts in
\* while (1) when it fails), delay(1000) and delay(2000).
SetupWith(SdBegins, Opens, LoraBegins, Slack) ==
    /\ mode = "boot"
    /\ \E sd \in SdBegins, ok \in Opens, lora \in LoraBegins, slack \in Slack :
         /\ sdMounted' = sd
         /\ csv' = IF sd THEN CreateCSVHeader(csv, ok) ELSE csv
         /\ mode' = AfterLoRaBegin(lora)
         /\ now' = BOOT_DELAY + slack
         /\ hist' = [hist EXCEPT
                       !.headers = IF csv'.lines # csv.lines THEN @ + 1 ELSE @,
                       !.loraFailed = ~lora]
    /\ UNCHANGED <<lastSensorRead, lastLoRaTransmit, lastSDWrite, packetCounter,
                   currentData, firstRead, pmsSerial, radio, iter>>

\* One iteration of loop().  A step <<rd, dt>> says how long it takes: rd
\* until readAllSensors takes its timestamp, dt until the next iteration
\* reads millis() (delay(100) included).  Dhts holds the <<temperature,
\* humidity>> the driver may deliver, Analogs the <<gas, smoke>> readings.
LoopWith(Steps, Dhts, Analogs, Garbage, Opens, horizon) ==
    /\ mode = "run"
    /\ \E st \in Steps, th \in Dhts, an \in Analogs, g \in Garbage, ok \in Opens,
          ov \in IntOverflowOutcomes :
         /\ st[2] >= st[1] + LOOP_DELAY
         /\ now + st[2] <= horizon
         /\ LET in == [rd |-> st[1], dt |-> st[2],
                       temperature |-> th[1], humidity |-> th[2],
                       gas |-> an[1], smoke |-> an[2],
                       garbage |-> g, openOk |-> ok, overflow |-> ov]
                m == LoopBody(Machine, in)
            IN /\ now' = m.now
               /\ lastSensorRead' = m.lastSensorRead
               /\ lastLoRaTransmit' = m.lastLoRaTransmit
               /\ lastSDWrite' = m.lastSDWrite
               /\ packetCounter' = m.packetCounter
               /\ currentData' = m.currentData
               /\ firstRead' = m.firstRead
               /\ pmsSerial' = m.pmsSerial
               /\ csv' = m.csv
               /\ radio' = m.radio
               /\ iter' = m.iter
               /\ hist' = m.hist
    /\ UNCHANGED <<mode, sdMounted>>

\* The particulate sensor sends bytes; the receive buffer keeps them until
\* readPMS5003 reads them.
PmsArriveWith(Chunks, maxArrivals) ==
    /\ mode = "run"
    /\ hist.arrivals < maxArrivals
    /\ hist' = [hist EXCEPT !.arrivals = @ + 1]
    /\ \E c \in Chunks :
         /\ Len(pmsSerial) + Len(ChunkBytes(c)) <= MaxStream
         /\ pmsSerial' = pmsSerial \o ChunkBytes(c)
    /\ UNCHANGED <<mode, now, lastSensorRead, lastLoRaTransmit, lastSDWrite,
                   packetCounter, currentData, firstRead, sdMounted, csv, radio,
                   iter>>

\* Power off and on: every global is initialised again, the card keeps the file.
PowerCycle ==
    /\ mode = "run" \/ mode = "halt"
    /\ hist.boots < MaxBoots
    /\ mode' = "boot"
    /\ now' = 0
    /\ lastSensorRead' = 0
    /\ lastLoRaTransmit' = 0
    /\ lastSDWrite' = 0
    /\ packetCounter' = 0
    /\ currentData' = ZeroData
    /\ firstRead' = TRUE
    /\ pmsSerial' = <<>>
    /\ sdMounted' = FALSE
    /\ radio' = <<>>
    /\ iter' = IdleIter
    /\ hist' = [hist EXCEPT !.cycles = 0, !.decoded = FALSE, !.boots = @ + 1,
                            !.arrivals = 0, !.loraFailed = FALSE, !.sent0 = 0]
    /\ UNCHANGED csv

\* ------------------------------------------------------------------------
\* The scheduler's specification: coarse clock steps, among them one that
\* skips several periods; at most one frame arrives from the sensor.
\* ------------------------------------------------------------------------
SchedSteps == {<<0, 2000>>, <<0, 5000>>, <<0, 30000>>, <<600, 12500>>}

SchedDhts == {<<250, 500>>}

SchedAnalogs == {<<0, 0>>}

SchedChunks == {<<1, 37, 80>>}

Init == InitWith({0})

Setup == SetupWith({TRUE}, {TRUE}, {FALSE, TRUE}, {0})

Loop == LoopWith(SchedSteps, SchedDhts, SchedAnalogs, {0}, {TRUE}, MaxClock)

PmsArrive == PmsArriveWith(SchedChunks, 1)

Next == Setup \/ Loop \/ PmsArrive

Spec == Init /\ [][Next]_vars

\* ------------------------------------------------------------------------
\* Scheduler claims
\* ------------------------------------------------------------------------
\* A step that is one iteration of loop().
LoopStep == mode = "run" /\ now' # now

\* 1 when the condition holds
Count(b) == IF b THEN 1 ELSE 0

\* C1 as stated: every firing of the sample action happens at a clock
\* value that is a positive multiple of SENSOR_READ_INTERVAL.
C1_FiresOnMultiples ==
    iter.samples > 0 =>
        /\ iter.at > 0
        /\ iter.at % SENSOR_READ_INTERVAL = 0

\* C1 as amended: in an iteration the sample action runs once when the
\* clock is SENSOR_READ_INTERVAL or more past the last firing (0 at boot)
\* and not at all otherwise, never more than once however many periods
\* have elapsed; the time of a firing becomes the reference of the next.
C1_FiresWhenDueOnce ==
    [][LoopStep =>
         /\ iter'.at = now
         /\ iter'.samples = Count(now - lastSensorRead >= SENSOR_READ_INTERVAL)
         /\ hist'.cycles = hist.cycles + iter'.samples
         /\ lastSensorRead' = IF iter'.samples = 1 THEN now ELSE lastSensorRead]_vars

\* The first firing since boot, in an iteration that found three periods
\* or more elapsed.
C1_Witness ==
    /\ hist.cycles = 1
    /\ iter.samples = 1
    /\ iter.at >= 3 * SENSOR_READ_INTERVAL
    /\ lastSensorRead = iter.at

\* C2: no timer catches up.  Each of the three timers fires at most once per
\* iteration, only when its period has elapsed since its stamp, and a
\* firing at clock value t leaves the stamp at t; a timer that does not
\* fire keeps its stamp.  So the stamp is always the time of the last
\* firing and the next firing is at t + period or later.
C2_NoCatchUp ==
    [][LoopStep =>
         /\ iter'.samples \in {0, 1} /\ iter'.writes \in {0, 1} /\ iter'.sends \in {0, 1}
         /\ iter'.samples = 1 => now >= lastSensorRead + SENSOR_READ_INTERVAL
         /\ iter'.writes = 1 => now >= lastSDWrite + SD_WRITE_INTERVAL
         /\ iter'.sends = 1 => now >= lastLoRaTransmit + LORA_TRANSMIT_INTERVAL
         /\ lastSensorRead' = IF iter'.samples = 1 THEN now ELSE lastSensorRead
         /\ lastSDWrite' = IF iter'.writes = 1 THEN now ELSE lastSDWrite
         /\ lastLoRaTransmit' = IF iter'.sends = 1 THEN now ELSE lastLoRaTransmit
         /\ Len(radio') = Len(radio) + iter'.sends
         /\ Len(hist'.calls) = Len(hist.calls) + iter'.writes]_vars

\* All three timers fire in one iteration that comes late, off the grid of
\* every period, after the persist timer had fired before.
C2_Witness ==
    /\ iter.samples = 1 /\ iter.writes = 1 /\ iter.sends = 1
    /\ iter.at % SENSOR_READ_INTERVAL # 0
    /\ iter.at > LORA_TRANSMIT_INTERVAL
    /\ Len(hist.calls) >= 2
    /\ lastSensorRead = iter.at /\ lastSDWrite = iter.at /\ lastLoRaTransmit = iter.at

\* The sample a packet carries
PacketData(p) ==
    [timestamp |-> p.timestamp, temperature |-> p.temp, humidity |-> p.humidity,
     pm25 |-> p.pm25, pm10 |-> p.pm10, gasLevel |-> p.gas, smokeLevel |-> p.smoke,
     aqi |-> p.aqi]

\* C3: in an iteration the sensors are read before the index is computed,
\* and both before the row is written or the packet sent; every data line
\* of the log and every packet sent carries the index of the very field
\* values it carries.
C3_OrderAndConsistency ==
    /\ \/ iter.order = <<>>
       \/ iter.order = <<"send">>
       \/ iter.order = <<"read", "aqi">>
       \/ iter.order = <<"read", "aqi", "write">>
       \/ iter.order = <<"read", "aqi", "send">>
       \/ iter.order = <<"read", "aqi", "write", "send">>
    /\ \A i \in 1..Len(csv.lines) :
          csv.lines[i].kind = "row" => csv.lines[i].row.aqi = AqiOf(csv.lines[i].row)
    /\ \A i \in 1..Len(radio) : radio[i].aqi = AqiOf(PacketData(radio[i]))
    /\ \A i \in 1..Len(hist.calls) : hist.calls[i].row.aqi = AqiOf(hist.calls[i].row)

\* An iteration that sampled, wrote and sent a sample with a decoded frame
\* in it, the index differing from the one of the previous line.
C3_Witness ==
    /\ iter.order = <<"read", "aqi", "write", "send">>
    /\ Len(radio) >= 1 /\ Len(csv.lines) >= 3
    /\ radio[Len(radio)].pm25 = 37
    /\ radio[Len(radio)].aqi = currentData.aqi
    /\ csv.lines[Len(csv.lines)].row = currentData
    /\ csv.lines[Len(csv.lines) - 1].row.aqi # currentData.aqi

\* C19: the log writer is called only in an iteration in which the sample
\* action runs, and only with SD_WRITE_INTERVAL or more elapsed since the
\* last call; an iteration without the sample action leaves the store and
\* the persist timer as they are, however long ago the last call was.
C19_PersistOnlyWithSample ==
    [][LoopStep =>
         /\ iter'.writes = 1 =>
               /\ iter'.samples = 1
               /\ now - lastSensorRead >= SENSOR_READ_INTERVAL
               /\ now - lastSDWrite >= SD_WRITE_INTERVAL
         /\ iter'.samples = 0 =>
               /\ iter'.writes = 0
               /\ csv' = csv
               /\ lastSDWrite' = lastSDWrite
               /\ hist'.calls = hist.calls]_vars

\* An iteration in which the persist period had elapsed but the sample
\* timer was not due: nothing was written.
C19_Witness ==
    /\ hist.cycles >= 1
    /\ iter.samples = 0
    /\ iter.writes = 0
    /\ iter.at - lastSDWrite >= SD_WRITE_INTERVAL
    /\ iter.at - lastSensorRead < SENSOR_READ_INTERVAL
    /\ hist.calls = <<>>

\* C21: the timers do not touch each other's state.  An iteration in which
\* only the transmit timer fires changes the transmit stamp, the packet
\* counter and the radio and leaves the sample, the sample stamp, the
\* persist stamp and the store as they are; one in which only the sample
\* timer fires leaves the transmit stamp, the counter and the radio as
\* they are; when both fire, the sample and the two stamps are as the
\* sample action left them.
C21_TimersIndependent ==
    [][LoopStep =>
         /\ iter'.sends = 1 =>
               /\ lastLoRaTransmit' = now
               /\ packetCounter' = packetCounter + 1
               /\ PacketData(radio'[Len(radio')]) = currentData'
         /\ (iter'.sends = 1 /\ iter'.samples = 0) =>
               /\ currentData' = currentData
               /\ lastSensorRead' = lastSensorRead
               /\ lastSDWrite' = lastSDWrite
               /\ csv' = csv
         /\ (iter'.sends = 1 /\ iter'.samples = 1) =>
               /\ lastSensorRead' = now
               /\ lastSDWrite' = IF iter'.writes = 1 THEN now ELSE lastSDWrite
               /\ currentData'.aqi = AqiOf(currentData')
               /\ currentData'.timestamp >= Seconds(now)
         /\ iter'.sends = 0 =>
               /\ lastLoRaTransmit' = lastLoRaTransmit
               /\ packetCounter' = packetCounter
               /\ radio' = radio]_vars

\* An iteration in which the transmit timer fired and the sample timer did
\* not: the packet carries the sample of an earlier iteration.
C21_Witness ==
    /\ iter.sends = 1
    /\ iter.samples = 0
    /\ hist.cycles >= 2
    /\ lastSensorRead < iter.at
    /\ lastLoRaTransmit = iter.at
    /\ PacketData(radio[Len(radio)]) = currentData
    /\ currentData.pm25 = 37

\* C22 as stated: in the iteration in which the transmit timer fires for
\* the first time since boot the sample timer fires as well, before it.
C22_FirstTransmitWithSample ==
    [][(LoopStep /\ iter'.sends = 1 /\ packetCounter = 0) =>
          /\ iter'.samples = 1
          /\ iter'.order[1] = "read"
          /\ iter'.order[Len(iter'.order)] = "send"]_vars

\* C22 as amended: no message is sent before the first sample has been
\* taken and its index computed.  In every iteration in which the transmit
\* timer fires a sample has been taken in an earlier iteration, or the
\* sample timer fires as well and is served first (always so when no
\* sample has been taken before); the message carries the last sample with
\* its index, never the contents the sample had at boot.
C22_NoTransmitBeforeSample ==
    [][(LoopStep /\ iter'.sends = 1) =>
          /\ hist.cycles >= 1 \/ iter'.samples = 1
          /\ iter'.samples = 1 =>
                /\ SubSeq(iter'.order, 1, 2) = <<"read", "aqi">>
                /\ iter'.order[Len(iter'.order)] = "send"
          /\ hist'.cycles >= 1
          /\ PacketData(radio'[Len(radio')]) = currentData'
          /\ currentData'.aqi = AqiOf(currentData')
          /\ currentData'.timestamp * 1000 >= BOOT_DELAY]_vars

\* The first iteration after boot that finds the transmit period elapsed
\* is also the first that samples: the one message sent carries the one
\* sample taken.
C22_Witness ==
    /\ hist.cycles = 1
    /\ iter.samples = 1
    /\ iter.sends = 1
    /\ iter.order[Len(iter.order)] = "send"
    /\ Len(radio) = 1
    /\ radio[1].packet = 0
    /\ PacketData(radio[1]) = currentData
    /\ currentData.timestamp = (BOOT_DELAY + LORA_TRANSMIT_INTERVAL) \div 1000

\* C13: once LoRa.begin has failed in setup() the node is halted and stays
\* so: no sample is taken (the sample is as at boot), the log writer is
\* never called and the file holds no data line, nothing is transmitted,
\* and no step follows.
C13_HaltsWithoutRadio ==
    [][/\ hist'.loraFailed =>
             /\ mode' = "halt"
             /\ hist'.cycles = 0
             /\ currentData' = ZeroData
             /\ hist'.calls = <<>>
             /\ \A i \in 1..Len(csv'.lines) : csv'.lines[i].kind # "row"
             /\ radio' = <<>>
             /\ packetCounter' = 0
       /\ mode = "halt" => UNCHANGED vars]_vars

\* The node halted in setup() after it had written the header of the log.
C13_Witness ==
    /\ mode = "halt"
    /\ hist.loraFailed
    /\ csv.lines = <<HeaderLine>>
    /\ radio = <<>>

\* ------------------------------------------------------------------------
\* The decoder's specification: the sensor's bytes arrive in pieces (whole
\* frames, the first bytes of a frame, bytes that are no sync, a lone 0x42)
\* between sample cycles five seconds apart.
\* ------------------------------------------------------------------------
PmsChunks == {<<1, 37, 80>>, <<1, 300, 600>>, <<2, 12, 37>>, <<3, 16, 0>>, <<4, 1, 0>>}

GarbageBytes == {0, 171}

SetupPMS == SetupWith({TRUE}, {TRUE}, {TRUE}, {0})

LoopPMS == LoopWith({<<0, 5000>>}, SchedDhts, SchedAnalogs, GarbageBytes, {TRUE}, PmsHorizon)

PmsArrivePMS == PmsArriveWith(PmsChunks, MaxArrivals)

NextPMS == SetupPMS \/ LoopPMS \/ PmsArrivePMS

SpecPMS == Init /\ [][NextPMS]_vars

\* ------------------------------------------------------------------------
\* Decoder claims
\* ------------------------------------------------------------------------
\* A step that is an iteration of loop() in which the sample action runs.
CycleStep == LoopStep /\ hist'.cycles = hist.cycles + 1

PmOf(d) == <<d.pm25, d.pm10>>

\* No 0x42 immediately followed by 0x4d anywhere in s
NoSyncIn(s) == \A i \in 1..(Len(s) - 1) : ~(s[i] = SYNC1 /\ s[i + 1] = SYNC2)

\* C4: a cycle whose decoder finds no frame leaves pm25 and pm10 as the
\* previous cycle left them; only the first cycle since boot may set them
\* to zero.
C4_RetainedAfterFirstCycle ==
    (iter.samples = 1 /\ ~iter.frameFound /\ hist.cycles > 1) =>
        PmOf(currentData) = iter.pmBefore

\* C5: with fewer than 32 bytes available readPMS5003 leaves the stream as
\* it is and decodes nothing: no frame is found, no byte is read, and pm25
\* and pm10 keep their values (or take the default 0 while firstRead is set).
C5_NoConsumeBelow32 ==
    [][(CycleStep /\ Len(pmsSerial) < FRAME_LEN) =>
          /\ pmsSerial' = pmsSerial
          /\ ~iter'.frameFound
          /\ iter'.nread = 0
          /\ iter'.avail = Len(pmsSerial)
          /\ PmOf(currentData') = IF firstRead THEN <<0, 0>> ELSE PmOf(currentData)]_vars

\* A cycle that found some bytes, fewer than 32 and with a sync among them,
\* and left them all in the stream.
C5_Witness ==
    /\ iter.samples = 1
    /\ iter.avail \in 1..(FRAME_LEN - 1)
    /\ ~iter.frameFound
    /\ Len(pmsSerial) = iter.avail
    /\ ~NoSyncIn(pmsSerial)

\* C6: whenever readPMS5003 finds the sync and updates pm25 and pm10, the 30
\* bytes after the sync were all read from the stream in that call.
C6_WholeFrameRead == (iter.samples = 1 /\ iter.frameFound) => iter.nread = FRAME_LEN - 2

\* C7: with 32 bytes or more available and no sync sequence among them,
\* readPMS5003 finds no frame, reads the stream empty and leaves pm25, pm10
\* and firstRead as they were.
C7_NoSyncNoFrame ==
    [][(CycleStep /\ Len(pmsSerial) >= FRAME_LEN /\ NoSyncIn(pmsSerial)) =>
          /\ ~iter'.frameFound
          /\ pmsSerial' = <<>>
          /\ PmOf(currentData') = PmOf(currentData)
          /\ firstRead' = firstRead]_vars

\* A cycle that scanned 32 bytes or more, found no frame and left the stream
\* empty, the values of an earlier frame still in place.
C7_Witness ==
    /\ iter.samples = 1
    /\ iter.avail >= FRAME_LEN
    /\ ~iter.frameFound
    /\ pmsSerial = <<>>
    /\ hist.decoded
    /\ PmOf(currentData) = <<37, 80>>

\* Where the first 0x42 immediately followed by 0x4d starts in s
FirstSync(s) ==
    CHOOSE i \in 1..(Len(s) - 1) :
        /\ s[i] = SYNC1 /\ s[i + 1] = SYNC2
        /\ NoSyncIn(Take(s, i))

\* C18: with 32 bytes or more available, among them a 0x42 immediately
\* followed by 0x4d, readPMS5003 finds a frame at the first such place: what
\* is left of the stream starts 32 bytes after it.
C18_LocksOnFirstSync ==
    [][(CycleStep /\ Len(pmsSerial) >= FRAME_LEN /\ ~NoSyncIn(pmsSerial)) =>
          /\ iter'.frameFound
          /\ pmsSerial' = Drop(pmsSerial, FirstSync(pmsSerial) + FRAME_LEN - 1)]_vars

\* The sum of the n first bytes of s
RECURSIVE SumBytes(_, _)
SumBytes(s, n) == IF n = 0 THEN 0 ELSE s[n] + SumBytes(s, n - 1)

\* The check code of a PMS5003 frame: its last two bytes hold the sum of
\* the 30 bytes before them.
ChecksumValid(f) ==
    f[FRAME_LEN - 1] * 256 + f[FRAME_LEN] = SumBytes(f, FRAME_LEN - 2)

\* C23: when the stream starts with the sync and holds 32 bytes or more,
\* readPMS5003 takes the first 32 bytes for a frame whatever they hold: it
\* reads the 30 bytes after the sync, pm25 becomes byte 12 * 256 + byte 13
\* and pm10 byte 14 * 256 + byte 15 (counted from the first sync byte), and
\* the rest of the stream is left.  The last two bytes are not checked.
C23_PositionalBigEndian ==
    [][(/\ CycleStep
        /\ Len(pmsSerial) >= FRAME_LEN
        /\ pmsSerial[1] = SYNC1 /\ pmsSerial[2] = SYNC2) =>
          /\ iter'.frameFound
          /\ iter'.nread = FRAME_LEN - 2
          /\ currentData'.pm25 = pmsSerial[13] * 256 + pmsSerial[14]
          /\ currentData'.pm10 = pmsSerial[15] * 256 + pmsSerial[16]
          /\ pmsSerial' = Drop(pmsSerial, FRAME_LEN)]_vars

\* A cycle that decoded a frame with both high bytes set, pm25 = 300 and
\* pm10 = 600, out of exactly 32 bytes whose check code is wrong.
C23_Witness ==
    /\ iter.samples = 1
    /\ iter.avail = FRAME_LEN
    /\ iter.frameFound
    /\ iter.nread = FRAME_LEN - 2
    /\ PmOf(currentData) = <<300, 600>>
    /\ iter.pmBefore # <<300, 600>>
    /\ pmsSerial = <<>>
    /\ Frame(300, 600)[13] = 1 /\ Frame(300, 600)[14] = 44
    /\ ~ChecksumValid(Frame(300, 600))

\* ------------------------------------------------------------------------
\* The index's specification: one sample cycle over the corners of the
\* input space (the ends of every breakpoint band and of the 16-bit range,
\* the ends of the analog range, the temperature and humidity thresholds,
\* a failed read, values far outside what a DHT11 delivers).
\* ------------------------------------------------------------------------
AqiPm25 == {0, 10, 12, 13, 35, 36, 55, 56, 150, 151, 250, 251, 500, 501, 65535}

AqiPm10 == {0, 20, 54, 55, 154, 155, 254, 255, 354, 355, 424, 425, 604, 605, 65535}

AqiChunks == {<<1, a, b>> : a \in AqiPm25, b \in AqiPm10}

AqiDhts ==
    {<<NAN, 500>>, <<-10000, 10000>>, <<-100, 0>>, <<0, 1000>>, <<250, NAN>>,
     <<250, 500>>, <<351, 801>>, <<10000, 1000>>}

AqiAnalogs == {<<0, 0>>, <<2048, 81>>, <<4095, 4095>>}

SetupAQI == SetupWith({TRUE}, {TRUE}, {TRUE}, {0})

LoopAQI == LoopWith({<<0, 5000>>}, AqiDhts, AqiAnalogs, {0}, {TRUE}, AqiHorizon)

PmsArriveAQI == PmsArriveWith(AqiChunks, 1)

NextAQI == SetupAQI \/ LoopAQI \/ PmsArriveAQI

SpecAQI == Init /\ [][NextAQI]_vars

\* ------------------------------------------------------------------------
\* Index claims
\* ------------------------------------------------------------------------
\* C8: after every sample cycle the stored aqi is an integer from 0 to 500,
\* whatever the sensors delivered.
C8_AqiInRange == currentData.aqi \in 0..500

\* A cycle whose composite value exceeded 500 before the bounds check, with
\* both particulates at the top of the 16-bit range.
C8_Witness ==
    /\ iter.samples = 1
    /\ iter.frameFound
    /\ PmOf(currentData) = <<65535, 65535>>
    /\ CompositeAQI(currentData) > 500 * 1000000
    /\ currentData.aqi = 500

\* C14: a sample cycle in which the DHT11 read fails (either value NaN)
\* stores 0 for temperature and for humidity and goes on: the particulate
\* decoder runs on the stream, gas, smoke and timestamp are read, and the
\* index is computed from these values in the same iteration.
C14_DhtFailureGoesOn ==
    [][(CycleStep /\ iter'.dhtFailed) =>
          /\ currentData'.temperature = 0
          /\ currentData'.humidity = 0
          /\ iter'.avail = Len(pmsSerial)
          /\ Len(pmsSerial) >= FRAME_LEN =>
                (iter'.frameFound /\ Len(pmsSerial') = Len(pmsSerial) - FRAME_LEN)
          /\ iter'.frameFound =>
                PmOf(currentData') = <<Word16(Drop(pmsSerial, 2), <<>>, 12),
                                       Word16(Drop(pmsSerial, 2), <<>>, 14)>>
          /\ currentData'.gasLevel = iter'.analog[1]
          /\ currentData'.smokeLevel = iter'.analog[2]
          /\ currentData'.timestamp = Seconds(now)
          /\ SubSeq(iter'.order, 1, 2) = <<"read", "aqi">>
          /\ currentData'.aqi = AqiOf(currentData')]_vars

\* A cycle with a failed DHT11 read that decoded a frame, read the analog
\* channels at the top of their range and computed the index from them.
C14_Witness ==
    /\ iter.samples = 1
    /\ iter.dhtFailed
    /\ currentData.temperature = 0 /\ currentData.humidity = 0
    /\ iter.frameFound
    /\ PmOf(currentData) = <<251, 425>>
    /\ currentData.gasLevel = 4095 /\ currentData.smokeLevel = 4095
    /\ currentData.timestamp > 0
    /\ currentData.aqi = AqiOf(currentData)
    /\ currentData.aqi > 200

\* C16: the PM2.5 sub-index of the sample's pm25 is 0 for 0, within 1 of
\* 50 for 12.0, and lies in the sub-index range of the breakpoint band
\* pm25 falls into: up to 12.0 in 0..50, up to 35.4 in 51..100, up to 55.4
\* in 101..150, up to 150.4 in 151..200, up to 250.4 in 201..300, above
\* that in 301..500.
C16_Pm25SubIndexInBand ==
    LET x == currentData.pm25 * 10
        a == Pm25Aqi(currentData.pm25)
    IN /\ x = 0 => a = 0
       /\ x = 120 => a \in 49..51
       /\ x <= 120 => a \in 0..50
       /\ (120 < x /\ x <= 354) => a \in 51..100
       /\ (354 < x /\ x <= 554) => a \in 101..150
       /\ (554 < x /\ x <= 1504) => a \in 151..200
       /\ (1504 < x /\ x <= 2504) => a \in 201..300
       /\ 2504 < x => a \in 301..500

\* A decoded pm25 beyond the top breakpoint, where the interpolation
\* exceeds 500 and the cap applies.
C16_Witness ==
    /\ iter.samples = 1
    /\ iter.frameFound
    /\ currentData.pm25 = 65535
    /\ Map(currentData.pm25 * 10, 2505, 5000, 301, 500) > 500
    /\ Pm25Aqi(currentData.pm25) = 500

\* C17: for a sample with temperature 25, humidity 50, gas 0 and smoke 0
\* both correction factors are 1 and the stress bonus is 0, and the stored
\* aqi is trunc(0.4 * PM2.5 sub-index + 0.3 * PM10 sub-index); for pm25 = 10
\* and pm10 = 20 that is 21.
C17_NeutralSample ==
    (/\ iter.samples = 1
     /\ currentData.temperature = 250 /\ currentData.humidity = 500
     /\ currentData.gasLevel = 0 /\ currentData.smokeLevel = 0) =>
        /\ TempFactor(currentData.temperature) = 100
        /\ HumidityFactor(currentData.humidity) = 100
        /\ currentData.aqi =
              (4 * Pm25Aqi(currentData.pm25) + 3 * Pm10Aqi(currentData.pm10)) \div 10
        /\ PmOf(currentData) = <<10, 20>> => currentData.aqi = 21

\* The sample of the example: pm25 = 10, pm10 = 20 decoded from a frame,
\* 25 degrees, 50 percent, both analog channels at 0.
C17_Witness ==
    /\ iter.samples = 1
    /\ iter.frameFound
    /\ PmOf(currentData) = <<10, 20>>
    /\ currentData.temperature = 250 /\ currentData.humidity = 500
    /\ iter.analog = <<0, 0>>
    /\ currentData.aqi = 21

\* ------------------------------------------------------------------------
\* The log's specification: the card may hold no file, an empty file or a
\* file with other content at first; SD.begin and every open may fail; the
\* node is power-cycled.
\* ------------------------------------------------------------------------
InitLog == InitWith({0, 1, 2})

SetupLog == SetupWith({FALSE, TRUE}, {FALSE, TRUE}, {TRUE}, {0})

LoopLog ==
    LoopWith({<<0, 5000>>, <<0, 10000>>}, SchedDhts, SchedAnalogs, {0},
             {FALSE, TRUE}, LogHorizon)

NextLog == SetupLog \/ LoopLog \/ PowerCycle

SpecLog == InitLog /\ [][NextLog]_vars

\* ------------------------------------------------------------------------
\* Log claims
\* ------------------------------------------------------------------------
\* The data lines of the calls of writeToSDCard so far: all of them, and
\* those whose open succeeded.
RECURSIVE RowsOf(_, _)
RowsOf(calls, openedOnly) ==
    IF calls = <<>> THEN <<>>
    ELSE IF openedOnly /\ ~Head(calls).opened
         THEN RowsOf(Tail(calls), openedOnly)
         ELSE <<RowLine(Head(calls).row)>> \o RowsOf(Tail(calls), openedOnly)

C10_AppendOnly ==
    [][/\ csv.exists => csv'.exists
       /\ Len(csv'.lines) >= Len(csv.lines)
       /\ SubSeq(csv'.lines, 1, Len(csv.lines)) = csv.lines
       /\ \A i \in (Len(csv.lines) + 1)..Len(csv'.lines) :
             csv'.lines[i].kind = "header" => (mode = "boot" /\ ~csv.exists)
       /\ (mode = "boot" /\ csv.exists) => csv' = csv
       /\ hist'.headers = hist.headers + Count(mode = "boot" /\ csv' # csv)]_vars

\* A file with other content at first, kept as the start of the file through
\* two boots that each appended data lines, no header anywhere.
C10_Witness ==
    /\ hist.store0.lines = <<OtherLine>>
    /\ hist.boots = 2
    /\ mode = "run"
    /\ hist.headers = 0
    /\ Len(csv.lines) >= 4
    /\ csv.lines[1] = OtherLine
    /\ \A i \in 2..Len(csv.lines) : csv.lines[i].kind = "row"
    /\ csv.lines[Len(csv.lines)].row = currentData

\* The last call of writeToSDCard so far
LastCall == hist.calls[Len(hist.calls)]

\* C11: a call of the log writer whose open fails writes nothing: the
\* store is as it was, the sample is the one the call was made with, the
\* loop goes on, and the persist timer is reset all the same; every call of
\* the writer, after a failed one too, comes SD_WRITE_INTERVAL or more after
\* the call before it.
C11_FailedOpenSkipsWrite ==
    [][LoopStep =>
         /\ iter'.writes = 1 => now - lastSDWrite >= SD_WRITE_INTERVAL
         /\ (iter'.writes = 1 /\ ~LastCall'.opened) =>
               /\ csv' = csv
               /\ currentData' = LastCall'.row
               /\ mode' = "run"
               /\ lastSDWrite' = now
               /\ Len(hist'.calls) = Len(hist.calls) + 1]_vars

\* With the card mounted and the header written, a call of the writer
\* failed to open the file, and the sample five seconds later did not try
\* again.
C11_Witness ==
    /\ sdMounted
    /\ csv.lines = <<HeaderLine>>
    /\ Len(hist.calls) = 1
    /\ ~LastCall.opened
    /\ iter.samples = 1
    /\ iter.writes = 0
    /\ iter.at = lastSDWrite + SENSOR_READ_INTERVAL
    /\ currentData.timestamp > LastCall.row.timestamp

\* ------------------------------------------------------------------------
\* The long run's specification: the node runs from boot, or is looked at
\* late in a run.  A late state is the one the node is in after iterations
\* five seconds apart since boot at 3000 (the sample timer firing in each,
\* the persist timer in every second, the transmit timer in every sixth),
\* with the card absent, no byte from the particulate sensor and the same
\* DHT11 reading every time:
\*   1  millis() = 2^32 - 4296 = 3000 + 858992 * 5000, after 143165 transmits;
\*   2  the same clock value some wraps of millis() later, after INT_MAX - 1
\*      transmits (one iteration in between took as much longer as it needs
\*      for that clock value).
\* iter and hist describe the last iteration before that state; sent0 is
\* the number of packets sent before it.
\* ------------------------------------------------------------------------
LateCounter(k) == IF k = 1 THEN 143165 ELSE INT_MAX - 1

LateData ==
    CalculateAQI([ZeroData EXCEPT !.timestamp = Seconds(-9296),
                                  !.temperature = 250, !.humidity = 500])

InitLate ==
    /\ mode = "run"
    /\ now = -4296
    /\ lastSensorRead = -9296
    /\ lastLoRaTransmit = -14296
    /\ lastSDWrite = -14296
    /\ \E k \in {1, 2} : packetCounter = LateCounter(k)
    /\ currentData = LateData
    /\ firstRead = FALSE
    /\ pmsSerial = <<>>
    /\ sdMounted = FALSE
    /\ csv = AbsentStore
    /\ radio = <<>>
    /\ iter = [IdleIter EXCEPT !.at = -9296, !.samples = 1,
                               !.order = <<"read", "aqi">>]
    /\ hist = [cycles |-> 1, decoded |-> FALSE, calls |-> <<>>, boots |-> 1,
               store0 |-> csv, headers |-> 0, arrivals |-> 0,
               loraFailed |-> FALSE, sent0 |-> packetCounter]

InitLong == Init \/ InitLate

SetupLong == SetupWith({TRUE}, {TRUE}, {TRUE}, {0})

LoopLong ==
    LoopWith({<<0, 5000>>, <<0, 30000>>}, SchedDhts, SchedAnalogs, {0}, {TRUE},
             LongHorizon)

NextLong == SetupLong \/ LoopLong

SpecLong == InitLong /\ [][NextLong]_vars

\* ------------------------------------------------------------------------
\* Long-run claims
\* ------------------------------------------------------------------------
\* C12: the packet counter is 0 at boot, never negative, goes up by exactly
\* 1 in an iteration that calls transmitData and is left alone by every
\* other step.
C12_UnsignedCounter ==
    [][/\ mode = "boot" => packetCounter = 0
       /\ packetCounter' >= 0
       /\ (LoopStep /\ iter'.sends = 1 /\ packetCounter < INT_MAX) =>
             packetCounter' = packetCounter + 1
       /\ ~(LoopStep /\ iter'.sends = 1) => packetCounter' = packetCounter]_vars

\* C15: within a run the timestamp of a sample is never below that of the
\* sample before it, nor the timestamp of a packet below that of the packet
\* before it.
C15_TimestampsNonDecreasing ==
    [][/\ (CycleStep /\ hist.cycles >= 1) =>
             currentData'.timestamp >= currentData.timestamp
       /\ (LoopStep /\ iter'.sends = 1 /\ Len(radio) >= 1) =>
             radio'[Len(radio')].timestamp >= radio[Len(radio)].timestamp]_vars

\* C20: a message carries the value the counter had before the call: the
\* k-th message since boot (k counted from 0) carries packet = k and the
\* counter is then k + 1, so the packets of successive messages are
\* consecutive, up to the message that carries INT_MAX.
C20_PacketIsCounterBefore ==
    /\ \A i \in 1..Len(radio) :
          (i - 1 <= INT_MAX - hist.sent0) => radio[i].packet = hist.sent0 + (i - 1)
    /\ (Len(radio) <= INT_MAX - hist.sent0) => packetCounter = hist.sent0 + Len(radio)

\* The first two messages since boot: packets 0 and 1.
C20_Witness ==
    /\ hist.sent0 = 0
    /\ Len(radio) = 2
    /\ radio[1].packet = 0
    /\ radio[2].packet = 1
    /\ packetCounter = 2
    /\ radio[2].timestamp >= radio[1].timestamp + 30

====
